---- MODULE Spec2Model ----
(***************************************************************************)
(* Model of telegram/_utils/warnings_transition.py: the helpers that       *)
(* build rename messages, reconcile a deprecated argument with its         *)
(* replacement, convert disable_web_page_preview to LinkPreviewOptions     *)
(* and warn about a renamed attribute.                                     *)
(*                                                                         *)
(* Several callers (threads) run the helpers; every caller has its own     *)
(* frame of locals and advances one source statement at a time, so calls   *)
(* of different callers interleave.  The only object all callers share is  *)
(* the process-wide warning sink behind telegram._utils.warnings.warn.     *)
(***************************************************************************)
EXTENDS Naturals, Sequences, FiniteSets, TLC

VARIABLES pc, frame, sink

vars == <<pc, frame, sink>>

(***************************************************************************)
(* Bounds of the model.                                                    *)
(***************************************************************************)
MaxSink == 2

Callers == {"c1", "c2"}

(***************************************************************************)
(* Python values.  Every value is a record [t, n]: t is the type, n the    *)
(* payload (bool: 0/1, int: the number, LinkPreviewOptions: is_disabled    *)
(* as 0/1).                                                                *)
(***************************************************************************)
None == [t |-> "NoneType", n |-> 0]
DEFAULT_NONE == [t |-> "DefaultValue", n |-> 0]
False == [t |-> "bool", n |-> 0]
True == [t |-> "bool", n |-> 1]
Int(k) == [t |-> "int", n |-> k]
Bool(b) == IF b THEN True ELSE False

\* LinkPreviewOptions(is_disabled=flag), flag a bool value
LinkPreviewOptions(flag) == [t |-> "LinkPreviewOptions", n |-> flag.n]

is_disabled(v) == Bool(v.n = 1)

\* isinstance(v, DefaultValue)
IsDefaultValue(v) == v.t = "DefaultValue"

\* bool(v): None, the unset marker, False and 0 are falsy, objects are truthy
Truthy(v) ==
    CASE v.t = "NoneType" -> FALSE
      [] v.t = "DefaultValue" -> FALSE
      [] v.t = "bool" -> v.n = 1
      [] v.t = "int" -> v.n # 0
      [] OTHER -> TRUE

IsNumber(v) == v.t \in {"bool", "int"}

\* a != b : bool and int compare as numbers (True == 1), other values only
\* with a value of their own type
PyNe(a, b) ==
    IF IsNumber(a) /\ IsNumber(b)
    THEN a.n # b.n
    ELSE a.t # b.t \/ a.n # b.n

PTBDeprecationWarning == "PTBDeprecationWarning"

\* one invocation of a warning callback: (message, category, stacklevel)
Warning(message, category, stacklevel) ==
    [message |-> message, category |-> category, stacklevel |-> stacklevel]

\* telegram._utils.warnings.warn: hands the warning to the process-wide sink
warn(snk, w) == Append(snk, w)

NoError == [type |-> "", message |-> ""]
ValueError(message) == [type |-> "ValueError", message |-> message]

(***************************************************************************)
(* The functions of the module.                                            *)
(***************************************************************************)
build_deprecation_warning_message_swapped(deprecated_name, new_name, object_type, bot_api_version) ==
    "The " \o object_type \o " '" \o deprecated_name \o "' was renamed to '"
        \o new_name \o "' in Bot API "
        \o bot_api_version \o ". We recommend using '" \o deprecated_name \o "' instead of "
        \o "'" \o new_name \o "'."

build_deprecation_warning_message(deprecated_name, new_name, object_type, bot_api_version) ==
    "The " \o object_type \o " '" \o deprecated_name \o "' was renamed to '"
        \o new_name \o "' in Bot API "
        \o bot_api_version \o ". We recommend using '" \o new_name \o "' instead of "
        \o "'" \o deprecated_name \o "'."

\* line 72: deprecated_arg and new_arg and deprecated_arg != new_arg
ConflictingArgs_identity(deprecated_arg, new_arg) ==
    Truthy(deprecated_arg) /\ Truthy(new_arg) /\ deprecated_arg # new_arg

ConflictingArgs_inverted(deprecated_arg, new_arg) ==
    Truthy(deprecated_arg) /\ Truthy(new_arg) /\ ~PyNe(deprecated_arg, new_arg)

ConflictingArgs(deprecated_arg, new_arg) ==
    Truthy(deprecated_arg) /\ Truthy(new_arg) /\ PyNe(deprecated_arg, new_arg)

\* lines 79-82: the message of the ValueError
ConflictMessage_bare(deprecated_arg_name, new_arg_name, bot_api_version) ==
    "You passed different entities as '" \o deprecated_arg_name \o "' and '"
        \o new_arg_name \o "'. "

ConflictMessage(deprecated_arg_name, new_arg_name, bot_api_version) ==
    "You passed different entities as '" \o deprecated_arg_name \o "' and '"
        \o new_arg_name \o "'. "
        \o build_deprecation_warning_message(deprecated_arg_name, new_arg_name,
                                             "parameter", bot_api_version)

\* line 84: if deprecated_arg
DeprecatedArgPassed_not_none(deprecated_arg) == deprecated_arg.t # "NoneType"

DeprecatedArgPassed(deprecated_arg) == Truthy(deprecated_arg)

\* lines 85-90: the arguments of warn_callback
ArgRenameWarning_no_new_name(deprecated_arg_name, new_arg_name, bot_api_version, stacklevel) ==
    Warning("Bot API " \o bot_api_version \o " renamed the argument '"
                \o deprecated_arg_name \o "'.",
            PTBDeprecationWarning, stacklevel + 1)

ArgRenameWarning(deprecated_arg_name, new_arg_name, bot_api_version, stacklevel) ==
    Warning("Bot API " \o bot_api_version \o " renamed the argument '"
                \o deprecated_arg_name \o "' to '" \o new_arg_name \o "'.",
            PTBDeprecationWarning, stacklevel + 1)

\* lines 112-115: the conversion to LinkPreviewOptions; built counts the
\* LinkPreviewOptions objects constructed
ConvertToLinkPreviewOptions_truthy(disable_web_page_preview, link_preview_options) ==
    IF Truthy(disable_web_page_preview)
    THEN [value |-> LinkPreviewOptions(disable_web_page_preview), built |-> 1]
    ELSE [value |-> link_preview_options, built |-> 0]

ConvertToLinkPreviewOptions_never(disable_web_page_preview, link_preview_options) ==
    [value |-> link_preview_options, built |-> 0]

ConvertToLinkPreviewOptions(disable_web_page_preview, link_preview_options) ==
    IF ~IsDefaultValue(disable_web_page_preview)
    THEN [value |-> LinkPreviewOptions(disable_web_page_preview), built |-> 1]
    ELSE [value |-> link_preview_options, built |-> 0]

\* lines 128-133: the warnings warn_about_deprecated_attr_in_property emits
AttrRenameWarnings_latest_only(deprecated_attr_name, new_attr_name, bot_api_version, stacklevel) ==
    IF bot_api_version = "7.0"
    THEN << Warning("Bot API " \o bot_api_version \o " renamed the attribute '"
                        \o deprecated_attr_name \o "' to '" \o new_attr_name \o "'.",
                    PTBDeprecationWarning, stacklevel + 1) >>
    ELSE << >>

AttrRenameWarnings(deprecated_attr_name, new_attr_name, bot_api_version, stacklevel) ==
    << Warning("Bot API " \o bot_api_version \o " renamed the attribute '"
                   \o deprecated_attr_name \o "' to '" \o new_attr_name \o "'.",
               PTBDeprecationWarning, stacklevel + 1) >>

(***************************************************************************)
(* Inputs.                                                                 *)
(***************************************************************************)
DefaultStacklevel == 2

\* (deprecated name, new name, bot_api_version) of a rename
RenameDescriptors ==
    { <<"foo", "bar", "7.0">>, <<"old_arg", "new_arg", "6.8">> }

ObjectTypes == {"parameter", "attribute"}

Options == { LinkPreviewOptions(False), LinkPreviewOptions(True) }

\* values a caller passes as the deprecated or the new argument
Values == {DEFAULT_NONE, None, False, True, Int(1), Int(2)}

\* ODVInput[bool] and ODVInput[LinkPreviewOptions]
BoolInputs == {DEFAULT_NONE, False, True}
OptionsInputs == {DEFAULT_NONE} \cup Options

(***************************************************************************)
(* State: pc[c] is the statement caller c executes next, frame[c] its      *)
(* locals and the outcome of its call, sink the warnings handed to the     *)
(* process-wide warn.                                                      *)
(***************************************************************************)
IdleFrame ==
    [ op |-> "",
      deprecated_arg |-> None, new_arg |-> None,
      deprecated_arg_name |-> "", new_arg_name |-> "",
      object_type |-> "", bot_api_version |-> "",
      stacklevel |-> DefaultStacklevel,
      disable_web_page_preview |-> None, link_preview_options |-> None,
      ret |-> None, text |-> "", err |-> NoError,
      warned |-> << >>, built |-> 0 ]

Init ==
    /\ pc = [c \in Callers |-> "idle"]
    /\ frame = [c \in Callers |-> IdleFrame]
    /\ sink = << >>

\* the calls in progress
Active == {c \in Callers : pc[c] # "idle"}

\* a call starts only while the sink has room for a warning of every call in
\* progress and of the new one, which keeps the sink within MaxSink
CanCall(c) == pc[c] = "idle" /\ Len(sink) + Cardinality(Active) < MaxSink

\* a caller calls build_deprecation_warning_message
Call_build_deprecation_warning_message(c) ==
    /\ CanCall(c)
    /\ \E d \in RenameDescriptors, ot \in ObjectTypes :
          frame' = [frame EXCEPT ![c] =
                      [IdleFrame EXCEPT !.op = "build_deprecation_warning_message",
                                        !.deprecated_arg_name = d[1],
                                        !.new_arg_name = d[2],
                                        !.object_type = ot,
                                        !.bot_api_version = d[3]]]
    /\ pc' = [pc EXCEPT ![c] = "L45"]
    /\ UNCHANGED sink

\* lines 45-49
L45(c) ==
    /\ pc[c] = "L45"
    /\ frame' = [frame EXCEPT ![c].text =
                    build_deprecation_warning_message(
                        frame[c].deprecated_arg_name, frame[c].new_arg_name,
                        frame[c].object_type, frame[c].bot_api_version)]
    /\ pc' = [pc EXCEPT ![c] = "returned"]
    /\ UNCHANGED sink

\* a caller calls warn_about_deprecated_arg_return_new_arg with the default
\* stacklevel and the default warn_callback
Call_warn_about_deprecated_arg_return_new_arg(c) ==
    /\ CanCall(c)
    /\ \E deprecated_arg \in Values, new_arg \in Values, d \in RenameDescriptors :
          frame' = [frame EXCEPT ![c] =
                      [IdleFrame EXCEPT !.op = "warn_about_deprecated_arg_return_new_arg",
                                        !.deprecated_arg = deprecated_arg,
                                        !.new_arg = new_arg,
                                        !.deprecated_arg_name = d[1],
                                        !.new_arg_name = d[2],
                                        !.bot_api_version = d[3]]]
    /\ pc' = [pc EXCEPT ![c] = "L72"]
    /\ UNCHANGED sink

\* a caller calls warn_for_link_preview_options, which calls
\* warn_about_deprecated_arg_return_new_arg (lines 102-109)
Call_warn_for_link_preview_options(c) ==
    /\ CanCall(c)
    /\ \E disable_web_page_preview \in BoolInputs, link_preview_options \in OptionsInputs :
          frame' = [frame EXCEPT ![c] =
                      [IdleFrame EXCEPT !.op = "warn_for_link_preview_options",
                                        !.disable_web_page_preview = disable_web_page_preview,
                                        !.link_preview_options = link_preview_options,
                                        !.deprecated_arg = disable_web_page_preview,
                                        !.new_arg = link_preview_options,
                                        !.deprecated_arg_name = "disable_web_page_preview",
                                        !.new_arg_name = "link_preview_options",
                                        !.bot_api_version = "7.0",
                                        !.stacklevel = 2]]
    /\ pc' = [pc EXCEPT ![c] = "L72"]
    /\ UNCHANGED sink

\* lines 72-82: the conflict check; the ValueError leaves the resolver and,
\* uncaught in warn_for_link_preview_options, that function too
L72(c) ==
    /\ pc[c] = "L72"
    /\ IF ConflictingArgs(frame[c].deprecated_arg, frame[c].new_arg)
       THEN /\ frame' = [frame EXCEPT ![c].err =
                           ValueError(ConflictMessage(frame[c].deprecated_arg_name,
                                                      frame[c].new_arg_name,
                                                      frame[c].bot_api_version))]
            /\ pc' = [pc EXCEPT ![c] = "raised"]
       ELSE /\ pc' = [pc EXCEPT ![c] = "L84"]
            /\ UNCHANGED frame
    /\ UNCHANGED sink

\* where the resolver returns to: its caller, or line 112 of
\* warn_for_link_preview_options, which drops the returned value
AfterResolver(c) ==
    IF frame[c].op = "warn_for_link_preview_options" THEN "L112" ELSE "returned"

ResolverResult(c, value) ==
    IF frame[c].op = "warn_for_link_preview_options" THEN frame[c].ret ELSE value

\* lines 84-93, with a warning that was given before not given again
L84_once(c) ==
    /\ pc[c] = "L84"
    /\ LET w == ArgRenameWarning(frame[c].deprecated_arg_name,
                                 frame[c].new_arg_name,
                                 frame[c].bot_api_version,
                                 frame[c].stacklevel)
           seen == \E i \in 1..Len(sink) : sink[i] = w
       IN IF DeprecatedArgPassed(frame[c].deprecated_arg)
          THEN /\ sink' = IF seen THEN sink ELSE warn(sink, w)
               /\ frame' = [frame EXCEPT
                               ![c].warned = IF seen THEN @ ELSE Append(@, w),
                               ![c].ret = ResolverResult(c, frame[c].deprecated_arg)]
          ELSE /\ frame' = [frame EXCEPT
                               ![c].ret = ResolverResult(c, frame[c].new_arg)]
               /\ UNCHANGED sink
    /\ pc' = [pc EXCEPT ![c] = AfterResolver(c)]

\* lines 84-93
L84(c) ==
    /\ pc[c] = "L84"
    /\ IF DeprecatedArgPassed(frame[c].deprecated_arg)
       THEN LET w == ArgRenameWarning(frame[c].deprecated_arg_name,
                                      frame[c].new_arg_name,
                                      frame[c].bot_api_version,
                                      frame[c].stacklevel)
            IN /\ sink' = warn(sink, w)
               /\ frame' = [frame EXCEPT
                               ![c].warned = Append(@, w),
                               ![c].ret = ResolverResult(c, frame[c].deprecated_arg)]
       ELSE /\ frame' = [frame EXCEPT
                           ![c].ret = ResolverResult(c, frame[c].new_arg)]
            /\ UNCHANGED sink
    /\ pc' = [pc EXCEPT ![c] = AfterResolver(c)]

\* lines 111-115
L112(c) ==
    /\ pc[c] = "L112"
    /\ LET r == ConvertToLinkPreviewOptions(frame[c].disable_web_page_preview,
                                            frame[c].link_preview_options)
       IN frame' = [frame EXCEPT ![c].link_preview_options = r.value,
                                 ![c].built = @ + r.built,
                                 ![c].ret = r.value]
    /\ pc' = [pc EXCEPT ![c] = "returned"]
    /\ UNCHANGED sink

\* a caller (a property) calls warn_about_deprecated_attr_in_property
Call_warn_about_deprecated_attr_in_property(c) ==
    /\ CanCall(c)
    /\ \E d \in RenameDescriptors :
          frame' = [frame EXCEPT ![c] =
                      [IdleFrame EXCEPT !.op = "warn_about_deprecated_attr_in_property",
                                        !.deprecated_arg_name = d[1],
                                        !.new_arg_name = d[2],
                                        !.bot_api_version = d[3]]]
    /\ pc' = [pc EXCEPT ![c] = "L128"]
    /\ UNCHANGED sink

RECURSIVE WarnAll(_, _)
WarnAll(snk, ws) ==
    IF ws = << >> THEN snk ELSE WarnAll(warn(snk, Head(ws)), Tail(ws))

\* lines 128-133
L128(c) ==
    /\ pc[c] = "L128"
    /\ LET ws == AttrRenameWarnings(frame[c].deprecated_arg_name,
                                    frame[c].new_arg_name,
                                    frame[c].bot_api_version,
                                    frame[c].stacklevel)
       IN /\ sink' = WarnAll(sink, ws)
          /\ frame' = [frame EXCEPT ![c].warned = @ \o ws, ![c].ret = None]
    /\ pc' = [pc EXCEPT ![c] = "returned"]

\* the caller has seen the outcome of its call and drops the frame
Finish(c) ==
    /\ pc[c] \in {"returned", "raised"}
    /\ pc' = [pc EXCEPT ![c] = "idle"]
    /\ frame' = [frame EXCEPT ![c] = IdleFrame]
    /\ UNCHANGED sink

Next ==
    \E c \in Callers :
        \/ Call_build_deprecation_warning_message(c)
        \/ L45(c)
        \/ Call_warn_about_deprecated_arg_return_new_arg(c)
        \/ Call_warn_for_link_preview_options(c)
        \/ L72(c)
        \/ L84(c)
        \/ L112(c)
        \/ Call_warn_about_deprecated_attr_in_property(c)
        \/ L128(c)
        \/ Finish(c)

Spec == Init /\ [][Next]_vars

(***************************************************************************)
(* Vocabulary of the properties.                                           *)
(***************************************************************************)
\* sub occurs in s
Contains(s, sub) ==
    \E i \in 1..(Len(s) + 1) :
        /\ i + Len(sub) - 1 <= Len(s)
        /\ SubSeq(s, i, i + Len(sub) - 1) = sub

Returned(c) == pc[c] = "returned"
Raised(c) == pc[c] = "raised"

\* caller c is in a direct call of warn_about_deprecated_arg_return_new_arg
InResolver(c) == frame[c].op = "warn_about_deprecated_arg_return_new_arg"
InLinkPreview(c) == frame[c].op = "warn_for_link_preview_options"
InAttr(c) == frame[c].op = "warn_about_deprecated_attr_in_property"
InBuild(c) == frame[c].op = "build_deprecation_warning_message"

BothTruthyAndUnequal(f) ==
    Truthy(f.deprecated_arg) /\ Truthy(f.new_arg) /\ PyNe(f.deprecated_arg, f.new_arg)

IsConflictError(f) ==
    /\ f.err.type = "ValueError"
    /\ Contains(f.err.message, f.deprecated_arg_name)
    /\ Contains(f.err.message, f.new_arg_name)
    /\ Contains(f.err.message, f.bot_api_version)

\* C1: a resolver call with deprecated_arg truthy, new_arg truthy and
\* deprecated_arg != new_arg never gets past the conflict check; it ends
\* raised with a ValueError whose message contains the deprecated name, the
\* new name and the Bot API version, with no value returned
C1_ConflictRaises ==
    \A c \in Callers :
        (InResolver(c) \/ InLinkPreview(c)) /\ BothTruthyAndUnequal(frame[c]) =>
            /\ pc[c] \in {"L72", "raised"}
            /\ frame[c].ret = None
            /\ Raised(c) => IsConflictError(frame[c])

C1_Witness ==
    \E c \in Callers :
        /\ InResolver(c) /\ Raised(c)
        /\ frame[c].deprecated_arg = True /\ frame[c].new_arg = Int(2)
        /\ frame[c].bot_api_version = "6.8"

C3_TruthyDeprecatedWarnsOnce ==
    \A c \in Callers :
        InResolver(c) /\ Truthy(frame[c].deprecated_arg) /\ ~Truthy(frame[c].new_arg) =>
            /\ ~Raised(c)
            /\ Returned(c) =>
                /\ frame[c].ret = frame[c].deprecated_arg
                /\ Len(frame[c].warned) = 1
                /\ Contains(frame[c].warned[1].message, frame[c].deprecated_arg_name)
                /\ Contains(frame[c].warned[1].message, frame[c].new_arg_name)
                /\ frame[c].warned[1].category = "PTBDeprecationWarning"

C3_Witness ==
    \E c \in Callers :
        /\ InResolver(c) /\ Returned(c)
        /\ frame[c].deprecated_arg = Int(2) /\ frame[c].new_arg = None
        /\ frame[c].deprecated_arg_name = "old_arg"

\* C4: a resolver call with both arguments truthy and equal does not fail,
\* returns the common value and invokes the warning callback exactly once
C4_EqualTruthyWarnsOnce ==
    \A c \in Callers :
        /\ InResolver(c)
        /\ Truthy(frame[c].deprecated_arg) /\ Truthy(frame[c].new_arg)
        /\ ~PyNe(frame[c].deprecated_arg, frame[c].new_arg)
        =>  /\ ~Raised(c)
            /\ Returned(c) =>
                /\ frame[c].ret = frame[c].deprecated_arg
                /\ ~PyNe(frame[c].ret, frame[c].new_arg)
                /\ Len(frame[c].warned) = 1

\* equal as Python values, though not the same object: True == 1
C4_Witness ==
    \E c \in Callers :
        /\ InResolver(c) /\ Returned(c)
        /\ frame[c].deprecated_arg = True /\ frame[c].new_arg = Int(1)

\* C5: warn_for_link_preview_options(True, unset) returns options with
\* is_disabled True after one warning; warn_for_link_preview_options(unset,
\* o) returns o unchanged after no warning
C5_LinkPreviewExamples ==
    \A c \in Callers :
        InLinkPreview(c) =>
            /\ frame[c].disable_web_page_preview = True /\ frame[c].new_arg = DEFAULT_NONE =>
                /\ ~Raised(c)
                /\ Returned(c) =>
                    /\ frame[c].ret.t = "LinkPreviewOptions"
                    /\ is_disabled(frame[c].ret) = True
                    /\ Len(frame[c].warned) = 1
            /\ frame[c].disable_web_page_preview = DEFAULT_NONE /\ frame[c].new_arg \in Options =>
                /\ ~Raised(c)
                /\ frame[c].warned = << >>
                /\ Returned(c) => frame[c].ret = frame[c].new_arg

C5_Witness ==
    /\ \E c \in Callers :
          /\ InLinkPreview(c) /\ Returned(c)
          /\ frame[c].disable_web_page_preview = True /\ frame[c].new_arg = DEFAULT_NONE
    /\ \E c \in Callers :
          /\ InLinkPreview(c) /\ Returned(c)
          /\ frame[c].disable_web_page_preview = DEFAULT_NONE
          /\ frame[c].new_arg = LinkPreviewOptions(True)

\* the message as the specification writes it
RenameMessage(deprecated_name, new_name, object_type, bot_api_version) ==
    "The " \o object_type \o " '" \o deprecated_name \o "' was renamed to '" \o new_name
        \o "' in Bot API " \o bot_api_version \o ". We recommend using '" \o new_name
        \o "' instead of '" \o deprecated_name \o "'."

FooBarMessage ==
    "The parameter 'foo' was renamed to 'bar' in Bot API 7.0. We recommend using 'bar' instead of 'foo'."

\* C6: build_deprecation_warning_message returns exactly "The {object_type}
\* '{deprecated_name}' was renamed to '{new_name}' in Bot API
\* {bot_api_version}. We recommend using '{new_name}' instead of
\* '{deprecated_name}'.", emits no warning and never fails
C6_MessageFormat ==
    \A c \in Callers :
        InBuild(c) =>
            /\ ~Raised(c)
            /\ frame[c].warned = << >>
            /\ Returned(c) =>
                /\ frame[c].text = RenameMessage(frame[c].deprecated_arg_name,
                                                 frame[c].new_arg_name,
                                                 frame[c].object_type,
                                                 frame[c].bot_api_version)
                /\ ( /\ frame[c].deprecated_arg_name = "foo"
                     /\ frame[c].new_arg_name = "bar"
                     /\ frame[c].object_type = "parameter"
                     /\ frame[c].bot_api_version = "7.0" )
                   => frame[c].text = FooBarMessage

C6_Witness ==
    \E c \in Callers :
        /\ InBuild(c) /\ Returned(c)
        /\ frame[c].deprecated_arg_name = "foo" /\ frame[c].new_arg_name = "bar"
        /\ frame[c].object_type = "parameter" /\ frame[c].bot_api_version = "7.0"

\* C7: every call of warn_about_deprecated_attr_in_property emits exactly
\* one warning of the deprecation category, whatever its arguments, never
\* fails and returns None
C7_AttrWarnsOnce ==
    \A c \in Callers :
        InAttr(c) =>
            /\ ~Raised(c)
            /\ Returned(c) =>
                /\ Len(frame[c].warned) = 1
                /\ frame[c].warned[1].category = "PTBDeprecationWarning"
                /\ frame[c].ret = None

C7_Witness ==
    /\ sink # << >>
    /\ \E c \in Callers :
          InAttr(c) /\ Returned(c) /\ frame[c].bot_api_version = "6.8"

\* the number of warnings a finished resolver call has made
C8_Counts ==
    \A c \in Callers :
        InResolver(c) =>
            /\ Returned(c) =>
                /\ ~BothTruthyAndUnequal(frame[c])
                /\ Len(frame[c].warned) = IF Truthy(frame[c].deprecated_arg) THEN 1 ELSE 0
            /\ Raised(c) =>
                /\ BothTruthyAndUnequal(frame[c])
                /\ frame[c].err.type = "ValueError"
                /\ frame[c].warned = << >>

C9_LinkPreviewConversion ==
    \A c \in Callers :
        InLinkPreview(c) =>
            /\ frame[c].deprecated_arg = frame[c].disable_web_page_preview
            /\ frame[c].deprecated_arg_name = "disable_web_page_preview"
            /\ frame[c].new_arg_name = "link_preview_options"
            /\ frame[c].bot_api_version = "7.0"
            /\ Returned(c) =>
                /\ frame[c].disable_web_page_preview \in {True, False} =>
                    /\ frame[c].ret.t = "LinkPreviewOptions"
                    /\ is_disabled(frame[c].ret) = frame[c].disable_web_page_preview
                    /\ frame[c].built = 1
                /\ frame[c].disable_web_page_preview = DEFAULT_NONE =>
                    /\ frame[c].ret = frame[c].new_arg
                    /\ frame[c].built = 0
            /\ Raised(c) =>
                /\ IsConflictError(frame[c])
                /\ frame[c].built = 0
                /\ frame[c].ret = None

C9_Witness ==
    /\ \E c \in Callers :
          /\ InLinkPreview(c) /\ Returned(c)
          /\ frame[c].disable_web_page_preview = False
          /\ frame[c].new_arg = LinkPreviewOptions(True)
    /\ \E c \in Callers :
          /\ InLinkPreview(c) /\ Raised(c)
          /\ frame[c].disable_web_page_preview = True

\* the arguments of the call in frame f, and what the call gave
Arguments(f) ==
    << f.op, f.deprecated_arg, f.new_arg, f.deprecated_arg_name, f.new_arg_name,
       f.object_type, f.bot_api_version, f.stacklevel, f.disable_web_page_preview >>

Outcome(c) ==
    << pc[c], frame[c].ret, frame[c].text, frame[c].err, frame[c].warned, frame[c].built >>

Finished(c) == pc[c] \in {"returned", "raised"}

C10_SameCallSameOutcome ==
    \A c1 \in Callers, c2 \in Callers :
        Finished(c1) /\ Finished(c2) /\ Arguments(frame[c1]) = Arguments(frame[c2])
            => Outcome(c1) = Outcome(c2)

C10_StepIsLocal ==
    /\ \E c \in Callers :
          \A d \in Callers \ {c} : pc'[d] = pc[d] /\ frame'[d] = frame[d]
    /\ Len(sink') >= Len(sink)
    /\ SubSeq(sink', 1, Len(sink)) = sink

\* C10: calls are stateless and independent: two finished calls with the
\* same arguments have the same outcome (value or error, and warnings),
\* whatever ran before or between their steps, and a step of one call
\* changes no other caller's frame and the sink only by appending to it
C10_Stateless ==
    /\ [] C10_SameCallSameOutcome
    /\ [][C10_StepIsLocal]_vars

\* two callers finished the same warning call while the sink already held
\* warnings of earlier calls
C10_Witness ==
    \E c1 \in Callers, c2 \in Callers :
        /\ c1 # c2
        /\ Finished(c1) /\ Finished(c2)
        /\ Arguments(frame[c1]) = Arguments(frame[c2])
        /\ frame[c1].warned # << >>
        /\ Len(sink) >= 2

====
